---- MODULE Spec2Model ----
(***************************************************************************)
(* Model of BFS_Crawler.py: crawl_website, extract_articles_from_page and  *)
(* get_article_details, run against a nondeterministic web site.           *)
(*                                                                         *)
(* A URL is the triple urlparse() splits it into: scheme, netloc and path. *)
(* A netloc is a host with an optional port.  A path is the sequence of    *)
(* its characters, so that the path filter is a real substring search.  An *)
(* href is a reference as it stands in the markup: scheme and netloc are   *)
(* empty when the markup leaves them out.                                  *)
(***************************************************************************)
EXTENDS Integers, Sequences, FiniteSets, Bags, TLC

\* ------------------------------------------------------------------ bounds
MaxDepthBound == 2      \* MAX_DEPTH ranges over 0..MaxDepthBound
MaxCards == 2           \* a page handed to extract_articles_from_page has 0..MaxCards cards
MaxPagesBound == 4      \* MAX_PAGES ranges over 1..MaxPagesBound
MainDepthBound == 1     \* MAX_DEPTH of a run of __main__ ranges over 0..MainDepthBound
MaxCountries == 6       \* country_list of Webscraping.main has 1..MaxCountries entries

\* ------------------------------------------------------------- URL values
Netloc(h, p) == [host |-> h, port |-> p]
NoNetloc == Netloc("", "")
URL(s, n, p) == [scheme |-> s, netloc |-> n, path |-> p]
NoUrl == URL("", NoNetloc, <<>>)

PathRoot    == <<"/">>
PathNews    == <<"/", "n", "e", "w", "s">>
PathBlog    == <<"/", "b", "l", "o", "g">>
PathPost    == <<"/", "P", "o", "s", "t">>
PathAbout   == <<"/", "a", "b", "o", "u", "t">>
PathArchive == <<"/", "a", "r", "c", "h", "i", "v", "e">>

SiteHost  == "www.twz.com"
OtherHost == "example.org"
BadHost   == "["          \* an unterminated IPv6 literal, as in href="http://["

\* The seed URLs crawl_website is started with.
Seeds == { URL("https", Netloc(SiteHost, ""), PathRoot),
           URL("https", Netloc(OtherHost, ""), PathRoot),
           URL("https", Netloc(SiteHost, ""), PathNews) }   \* a seed the filter accepts

\* The href attribute values of the site's anchors (after .strip()).
hNews  == URL("https", Netloc(SiteHost, ""), PathNews)     \* same host, matching path
hBlog  == URL("", NoNetloc, PathBlog)                      \* relative, matching path
hPost  == URL("https", Netloc(SiteHost, ""), PathPost)     \* matches only ignoring case
hAbout == URL("https", Netloc(SiteHost, ""), PathAbout)    \* same host, path not matching
hOther == URL("https", Netloc(OtherHost, ""), PathNews)    \* other host, matching path
hFtp   == URL("ftp", Netloc(SiteHost, ""), PathArchive)    \* same host, scheme not http(s)
hPort  == URL("https", Netloc(SiteHost, "443"), PathNews)  \* same host, netloc with a port
hBad   == URL("http", Netloc(BadHost, ""), <<>>)           \* malformed: urljoin raises
hEmpty == NoUrl                                            \* whitespace only: "" after strip

\* The anchor lists (soup.find_all("a", href=True), in markup order) a page
\* of the site can carry.
PageAnchors ==
    { <<>>,
      <<hNews, hAbout, hBlog, hPost>>,
      <<hBlog, hOther, hNews, hBlog>>,
      <<hFtp, hEmpty, hPost, hPort>>,
      <<hNews, hBad, hBlog>> }

\* ----------------------------------------------------------- path filter
UpperLetters == <<"A","B","C","D","E","F","G","H","I","J","K","L","M",
                  "N","O","P","Q","R","S","T","U","V","W","X","Y","Z">>
LowerLetters == <<"a","b","c","d","e","f","g","h","i","j","k","l","m",
                  "n","o","p","q","r","s","t","u","v","w","x","y","z">>

\* re.IGNORECASE: a character compared without regard to case.
Lower(c) ==
    IF \E i \in 1..26 : UpperLetters[i] = c
    THEN LowerLetters[CHOOSE i \in 1..26 : UpperLetters[i] = c]
    ELSE c

\* The alternatives of ACCEPTED_PATH_REGEX.
ACCEPTED_PATH_REGEX ==
    { <<"b","l","o","g">>, <<"a","r","t","i","c","l","e">>, <<"p","o","s","t">>,
      <<"c","a","t","e","g","o","r","y">>, <<"a","r","c","h","i","v","e">>,
      <<"n","e","w","s">> }

\* ACCEPTED_PATH_REGEX.search(path): some alternative occurs somewhere in path.
RegexSearch(path) ==
    \E k \in ACCEPTED_PATH_REGEX :
        \E i \in 1..(Len(path) - Len(k) + 1) :
            \A j \in 1..Len(k) : Lower(path[i + j - 1]) = k[j]

\* ---------------------------------------------------------------- urljoin
\* urljoin(base, href) raises ValueError on a malformed netloc.
UrlJoinRaises(href) == href.netloc.host = BadHost

\* urljoin(base, href) for the hrefs above: an href with a scheme is absolute,
\* one with only a netloc takes the base's scheme, a rooted path takes both.
urljoin(base, href) ==
    IF href.scheme # "" THEN href
    ELSE IF href.netloc # NoNetloc THEN URL(base.scheme, href.netloc, href.path)
    ELSE URL(base.scheme, base.netloc, href.path)

\* `if not href` after strip(): the href is the empty string.
IsEmptyHref(href) == href = NoUrl

\* ------------------------------------------------------- the environment
\* What a GET can come back with: status 200, another status, or a
\* requests.exceptions.RequestException (timeout, connection error).
Responses == {"200", "non200", "RequestException"}

\* What the GET of an article's detail page comes back with: status 200 and
\* the date and authors its markup carries, another status, a
\* RequestException, or another Exception raised while the page is parsed.
DetailPage(status, date, authors) ==
    [status |-> status, date |-> date, authors |-> authors]
DetailStatuses == {"200", "non200", "RequestException", "Exception"}
pageFull   == DetailPage("200", "Apr 4, 2025", <<"Page Author">>)
pageBare   == DetailPage("200", "", <<>>)
pageFailed == DetailPage("non200", "", <<>>)
pageNoGet  == DetailPage("RequestException", "", <<>>)
pageRaises == DetailPage("Exception", "", <<>>)

\* An article card of a listing page: the href of its title link (empty when
\* the card has no usable link), the date and authors shown on the card, and
\* the detail page behind the link.
Card(link, date, authors, details) ==
    [Link |-> link, date |-> date, authors |-> authors, details |-> details]
cNewsOk     == Card(hNews, "Apr 3, 2025", <<>>, pageFull)
cNewsFailed == Card(hNews, "", <<"Card Author">>, pageFailed)
cBlog       == Card(hBlog, "", <<>>, pageNoGet)   \* no scheme: requests cannot send it
cNoLink     == Card(hEmpty, "", <<>>, pageFailed)

\* The card lists (soup.find_all("div", class_="card-post")) a page can carry.
PageCards ==
    { <<>>,
      <<cNewsOk>>,
      <<cBlog, cNewsFailed>>,
      <<cNoLink, cNewsOk, cNewsOk>> }

Request(u, who) == [url |-> u, by |-> who]

\* requests.get(url) sends a request only when the URL carries a scheme;
\* otherwise it raises MissingSchema, a RequestException, before sending.
Sent(u, who) ==
    IF u.scheme \in {"http", "https"} THEN SetToBag({Request(u, who)}) ELSE EmptyBag

\* ------------------------------------------------- get_article_details
\* Line 57: the dictionary get_article_details starts from.
EmptyDetails == [FullArticle |-> "", DatePosted |-> "", Authors |-> <<>>]

\* Mutant: the details of a page that failed to load are filled all the same.
DetailsFilledAlways(article_url, page) ==
    [FullArticle |-> "text", DatePosted |-> "Apr 4, 2025", Authors |-> <<"Page Author">>]

\* Lines 57-108: a URL without scheme makes requests.get raise MissingSchema;
\* a status other than 200 and every exception leave the dictionary as it
\* started.
get_article_details(article_url, page) ==
    IF article_url.scheme \in {"http", "https"} /\ page.status = "200"
    THEN [FullArticle |-> "text", DatePosted |-> page.date, Authors |-> page.authors]
    ELSE EmptyDetails

\* ------------------------------------------ extract_articles_from_page
\* The record built from one card of page_url.  Page stands for the fields
\* read from the card itself (Section, Title, dates, Updates), which tell the
\* listing page the record was extracted from.
ArticleData(page_url, card) ==
    LET details == get_article_details(card.Link, card.details) IN
    [Link |-> card.Link,
     Page |-> page_url,
     Authors |-> IF card.authors = <<>> /\ details.Authors # <<>>
                 THEN details.Authors ELSE card.authors,
     DatePosted |-> IF card.date = "" /\ details.DatePosted # ""
                    THEN details.DatePosted ELSE card.date,
     FullArticle |-> details.FullArticle]

\* The for-loop over the cards: cards without a link are skipped.
RECURSIVE CardArticles(_, _)
CardArticles(page_url, cards) ==
    IF cards = <<>> THEN <<>>
    ELSE IF IsEmptyHref(Head(cards).Link) THEN CardArticles(page_url, Tail(cards))
    ELSE <<ArticleData(page_url, Head(cards))>> \o CardArticles(page_url, Tail(cards))

\* The detail-page requests sent for the first n cards.
RECURSIVE DetailRequests(_, _)
DetailRequests(cards, n) ==
    IF n = 0 THEN EmptyBag
    ELSE DetailRequests(cards, n - 1) (+)
         (IF IsEmptyHref(cards[n].Link) THEN EmptyBag
          ELSE Sent(cards[n].Link, "get_article_details"))

\* Mutant: the status of the page is not looked at.
PageRetrievedAlways(resp) == TRUE

\* The status test of lines 122-124.
PageRetrieved(resp) == resp = "200"

\* Mutant: the handler of lines 200-202 returns the records gathered so far.
ExtractKeepsEarlier(page_url, resp, cards, raiseAt) ==
    IF ~PageRetrieved(resp) THEN <<>>
    ELSE IF raiseAt = 0 THEN CardArticles(page_url, cards)
    ELSE CardArticles(page_url, SubSeq(cards, 1, raiseAt - 1))

\* raiseAt = 0: no exception; raiseAt = k > 0: handling card k raises an
\* Exception, caught by the handler of lines 200-202, which returns [].
extract_articles_from_page(page_url, resp, cards, raiseAt) ==
    IF PageRetrieved(resp) /\ raiseAt = 0 THEN CardArticles(page_url, cards) ELSE <<>>

\* The requests extract_articles_from_page sends.
ExtractRequests(page_url, resp, cards, raiseAt) ==
    Sent(page_url, "extract_articles_from_page") (+)
    (IF ~PageRetrieved(resp) THEN EmptyBag
     ELSE IF raiseAt = 0 THEN DetailRequests(cards, Len(cards))
     ELSE DetailRequests(cards, raiseAt - 1))

\* ------------------------------------------------------------------ state
VARIABLES
    start_url,            \* the argument of crawl_website
    MAX_DEPTH,            \* configuration (3 at line 13), fixed for a run
    MAX_PAGES,            \* configuration (500 at line 14), fixed for a run
    domain,               \* urlparse(start_url).netloc
    visited,              \* set of URLs
    scraped_article_urls, \* set of hrefs (the records' Link values)
    queue,                \* the deque of [url, depth]
    all_articles,         \* sequence of records
    pages_visited,
    current_url, depth,   \* the entry being processed
    pc,                   \* where crawl_website stands
    crawlLog,             \* history: the "Crawling URL" lines, in order
    getLog,               \* history: bag of the HTTP GET requests sent
    extractLog,           \* history: the records extract_articles_from_page returned
    discovered,           \* history: the links resolved at line 254
    page_fetch,           \* history: how the page GET for the current entry ended
    seed_fetch,           \* history: how the page GET for start_url ended
    link_fetch,           \* history: how the link GET for the current entry ended
    a_tags                \* history: the anchors the link GET just returned

\* The state of __main__ (lines 274-320).
VARIABLES
    main_pc,              \* where the script stands
    written               \* the output files saved so far

main_vars == <<main_pc, written>>

\* __main__ is not run: crawl_website is called on its own.
MainIdle == main_pc = "idle" /\ written = {}

\* The state of one call of extract_articles_from_page on its own.
VARIABLES
    ex_pc,                \* "idle", "called" or "returned"
    ex_resp,              \* what the page GET comes back with
    ex_cards,             \* the cards of the page
    ex_raise_at,          \* 0, or the card whose handling raises
    ex_returned           \* the list the call returned

extract_vars == <<ex_pc, ex_resp, ex_cards, ex_raise_at, ex_returned>>

\* extract_articles_from_page is not called on its own.
ExtractIdle ==
    /\ ex_pc = "idle" /\ ex_resp = "200" /\ ex_cards = <<>>
    /\ ex_raise_at = 0 /\ ex_returned = <<>>

\* The state of a run of Master_Script.py, or of a call of run_all.run_script.
VARIABLES
    ms_file,              \* "Master_Script" or "run_all"; "none": neither runs
    ms_pc,                \* where the process stands
    ms_package,           \* index of the package check_and_install_packages is at
    pip_runs,             \* history: the packages pip install was run for
    running,              \* the scripts started by subprocess.run and not yet ended
    ms_log,               \* history: [script, returncode] of each ended script
    exit_status           \* "running", or how the process ended

scripts_vars == <<ms_file, ms_pc, ms_package, pip_runs, running, ms_log, exit_status>>

\* Neither runs.
ScriptsIdle ==
    /\ ms_file = "none" /\ ms_pc = <<"idle">> /\ ms_package = 1 /\ pip_runs = {}
    /\ running = {} /\ ms_log = <<>> /\ exit_status = "running"

\* The state of one call of Webscraping.process_country.
VARIABLES
    pcy_pc,               \* where the call stands
    country_info,         \* the argument: [name, code]
    driver,               \* "none", "open" or "quit"
    quit_calls,           \* history: how often driver.quit() was called
    data,                 \* the row under construction: key -> value
    caught                \* history: the handler of line 192 ran

country_vars == <<pcy_pc, country_info, driver, quit_calls, data, caught>>

NoRow == [k \in {} |-> "None"]

\* process_country is not called.
CountryIdle ==
    /\ pcy_pc = "idle" /\ country_info = [name |-> "", code |-> ""]
    /\ driver = "none" /\ quit_calls = 0 /\ data = NoRow /\ caught = FALSE

\* Webscraping.main (lines 199-255).
VARIABLES
    pool_pc,              \* position of the main thread
    country_list,         \* line 201
    futures,              \* per country: "unsubmitted", "pending", "running",
                          \* "returned" or "raised"
    yielded,              \* futures as_completed has handed to the loop body
    all_data,             \* line 202
    appenders             \* history: the threads that called all_data.append

pool_vars == <<pool_pc, country_list, futures, yielded, all_data, appenders>>

\* Webscraping.main is not called.
PoolIdle ==
    /\ pool_pc = "idle" /\ country_list = <<>> /\ futures = <<>>
    /\ yielded = {} /\ all_data = <<>> /\ appenders = {}

\* Everything that is not the state of crawl_website.
outside == <<main_vars, extract_vars, scripts_vars, country_vars, pool_vars>>
OutsideIdle == MainIdle /\ ExtractIdle /\ ScriptsIdle /\ CountryIdle /\ PoolIdle

vars == <<start_url, MAX_DEPTH, MAX_PAGES, domain, visited, scraped_article_urls,
          queue, all_articles, pages_visited, current_url, depth, pc,
          crawlLog, getLog, extractLog, discovered, page_fetch, seed_fetch,
          link_fetch, a_tags>>

config == <<start_url, MAX_DEPTH, MAX_PAGES, domain>>

Init ==
    /\ OutsideIdle
    /\ start_url \in Seeds
    /\ MAX_DEPTH \in 0..MaxDepthBound
    /\ MAX_PAGES \in 1..MaxPagesBound
    /\ domain = start_url.netloc
    /\ visited = {}
    /\ scraped_article_urls = {}
    /\ queue = <<[url |-> start_url, depth |-> 0]>>
    /\ all_articles = <<>>
    /\ pages_visited = 0
    /\ current_url = NoUrl
    /\ depth = 0
    /\ pc = "loop"
    /\ crawlLog = <<>>
    /\ getLog = EmptyBag
    /\ extractLog = {}
    /\ discovered = {}
    /\ page_fetch = "none"
    /\ seed_fetch = "none"
    /\ link_fetch = "none"
    /\ a_tags = <<>>

\* --------------------------------------------------------- crawl_website
\* Mutant: the Link is not looked up in scraped_article_urls.
IsNewArticleAlways(article, scraped) == TRUE

\* Line 238: the test that lets a record into all_articles.
IsNewArticle(article, scraped) == article["Link"] \notin scraped

\* Mutant: a record met again replaces the one already held.
RECURSIVE MergeArticlesLastWins(_, _, _)
MergeArticlesLastWins(articles, scraped, all) ==
    IF articles = <<>> THEN [scraped |-> scraped, all |-> all]
    ELSE LET a == Head(articles)
             kept == SelectSeq(all, LAMBDA r : r.Link # a.Link)
         IN MergeArticlesLastWins(Tail(articles), scraped \cup {a.Link},
                                  Append(kept, a))

\* Lines 236-240: append the articles whose Link was not scraped before.
RECURSIVE MergeArticles(_, _, _)
MergeArticles(articles, scraped, all) ==
    IF articles = <<>> THEN [scraped |-> scraped, all |-> all]
    ELSE LET a == Head(articles) IN
         IF IsNewArticle(a, scraped)
         THEN MergeArticles(Tail(articles), scraped \cup {a.Link}, Append(all, a))
         ELSE MergeArticles(Tail(articles), scraped, all)

\* Mutant: the visited test is left out.
AlreadyVisitedNever(u, vis) == FALSE

\* Line 225.
AlreadyVisited(u, vis) == u \in vis

\* Mutant: the URL is not recorded.
MarkVisitedForgets(vis, u) == vis

\* Line 228.
MarkVisited(vis, u) == vis \cup {u}

\* Mutant: the page cap is not tested at the dequeue.
OverCapsDepthOnly(d, n) == d > MAX_DEPTH

\* Mutant: > where the code has >=.
OverCapsOffByOne(d, n) == d > MAX_DEPTH \/ n > MAX_PAGES

\* Line 230.
OverCaps(d, n) == d > MAX_DEPTH \/ n >= MAX_PAGES

\* Mutant: the page cap is not tested before the links are read.
MayFollowLinksDepthOnly(d, n) == d < MAX_DEPTH

\* Mutant: <= where the code has <.
MayFollowLinksInclusive(d, n) == d <= MAX_DEPTH /\ n < MAX_PAGES

\* Line 244.
MayFollowLinks(d, n) == d < MAX_DEPTH /\ n < MAX_PAGES

\* Mutant: the path filter of line 260 is left out.
AcceptLinkNoFilter(new_url, vis) ==
    /\ new_url.netloc = domain
    /\ new_url.scheme \in {"http", "https"}
    /\ new_url \notin vis

\* Mutant: the netloc test of line 257 is left out.
AcceptLinkAnyHost(new_url, vis) ==
    /\ new_url.scheme \in {"http", "https"}
    /\ new_url \notin vis
    /\ RegexSearch(new_url.path)

\* Mutant: a link whose URL already waits in the queue is refused as well.
AcceptLinkUnlessQueued(new_url, vis) ==
    /\ new_url.netloc = domain
    /\ new_url.scheme \in {"http", "https"}
    /\ new_url \notin vis
    /\ RegexSearch(new_url.path)
    /\ \A i \in DOMAIN queue : queue[i].url # new_url

\* Lines 257-260: the test a resolved link must pass to be queued.
AcceptLink(new_url, vis) ==
    /\ new_url.netloc = domain
    /\ new_url.scheme \in {"http", "https"}
    /\ new_url \notin vis
    /\ RegexSearch(new_url.path)

\* Mutant: appendleft where the code has append.
EnqueueFront(q, e) == <<e>> \o q

\* Line 261.
Enqueue(q, e) == Append(q, e)

\* Lines 249-261: the loop over the anchors.  urljoin raising ValueError stops
\* the loop with the links queued so far; the exception is not a
\* RequestException, so the handler of line 262 does not catch it.
RECURSIVE ProcessAnchors(_, _)
ProcessAnchors(anchors, q) ==
    IF anchors = <<>> THEN [queue |-> q, raised |-> FALSE]
    ELSE LET href == Head(anchors) IN
         IF IsEmptyHref(href) THEN ProcessAnchors(Tail(anchors), q)
         ELSE IF UrlJoinRaises(href) THEN [queue |-> q, raised |-> TRUE]
         ELSE LET new_url == urljoin(current_url, href) IN
              IF AcceptLink(new_url, visited)
              THEN ProcessAnchors(Tail(anchors),
                                  Enqueue(q, [url |-> new_url, depth |-> depth + 1]))
              ELSE ProcessAnchors(Tail(anchors), q)

\* The links line 254 resolves before the loop ends or urljoin raises.
RECURSIVE ResolvedLinks(_)
ResolvedLinks(anchors) ==
    IF anchors = <<>> THEN {}
    ELSE LET href == Head(anchors) IN
         IF IsEmptyHref(href) THEN ResolvedLinks(Tail(anchors))
         ELSE IF UrlJoinRaises(href) THEN {}
         ELSE {urljoin(current_url, href)} \cup ResolvedLinks(Tail(anchors))

\* Lines 222-226: an entry whose URL was visited is dropped.
SkipVisited ==
    /\ pc = "loop" /\ queue # <<>>
    /\ AlreadyVisited(Head(queue).url, visited)
    /\ queue' = Tail(queue)
    /\ current_url' = Head(queue).url
    /\ depth' = Head(queue).depth
    /\ page_fetch' = "none" /\ link_fetch' = "none" /\ a_tags' = <<>>
    /\ UNCHANGED outside
    /\ UNCHANGED <<config, visited, scraped_article_urls, all_articles,
                   pages_visited, pc, crawlLog, getLog, extractLog, discovered,
                   seed_fetch>>

\* Lines 222-231: an entry beyond the caps is marked visited and dropped.
DropCapped ==
    /\ pc = "loop" /\ queue # <<>>
    /\ ~AlreadyVisited(Head(queue).url, visited)
    /\ OverCaps(Head(queue).depth, pages_visited)
    /\ queue' = Tail(queue)
    /\ current_url' = Head(queue).url
    /\ depth' = Head(queue).depth
    /\ visited' = MarkVisited(visited, Head(queue).url)
    /\ page_fetch' = "none" /\ link_fetch' = "none" /\ a_tags' = <<>>
    /\ UNCHANGED outside
    /\ UNCHANGED <<config, scraped_article_urls, all_articles, pages_visited, pc,
                   crawlLog, getLog, extractLog, discovered, seed_fetch>>

\* Lines 222-235: the entry is marked visited, "Crawling URL" is printed and
\* extract_articles_from_page is called; the call blocks in its GET.
BeginCrawl ==
    /\ pc = "loop" /\ queue # <<>>
    /\ ~AlreadyVisited(Head(queue).url, visited)
    /\ ~OverCaps(Head(queue).depth, pages_visited)
    /\ queue' = Tail(queue)
    /\ current_url' = Head(queue).url
    /\ depth' = Head(queue).depth
    /\ visited' = MarkVisited(visited, Head(queue).url)
    /\ crawlLog' = Append(crawlLog, [url |-> Head(queue).url, depth |-> Head(queue).depth])
    /\ pc' = "extract"
    /\ page_fetch' = "none" /\ link_fetch' = "none" /\ a_tags' = <<>>
    /\ UNCHANGED outside
    /\ UNCHANGED <<config, scraped_article_urls, all_articles, pages_visited,
                   getLog, extractLog, discovered, seed_fetch>>

\* Mutant: the page is not counted.
CountPageForgets(n) == n

\* Line 242.
CountPage(n) == n + 1

\* Lines 235-246: extract_articles_from_page returns, its articles are merged,
\* the page is counted, and the link-extraction GET is sent or skipped.
ExtractReturns(resp, cards, raiseAt) ==
    /\ pc = "extract"
    /\ LET articles == extract_articles_from_page(current_url, resp, cards, raiseAt)
           merged == MergeArticles(articles, scraped_article_urls, all_articles)
       IN /\ scraped_article_urls' = merged.scraped
          /\ all_articles' = merged.all
          /\ extractLog' = extractLog \cup {articles[i] : i \in 1..Len(articles)}
    /\ getLog' = getLog (+) ExtractRequests(current_url, resp, cards, raiseAt)
    /\ page_fetch' = resp
    /\ seed_fetch' = IF current_url = start_url THEN resp ELSE seed_fetch
    /\ pages_visited' = CountPage(pages_visited)
    /\ pc' = IF MayFollowLinks(depth, CountPage(pages_visited)) THEN "links" ELSE "sleep"
    /\ UNCHANGED outside
    /\ UNCHANGED <<config, visited, queue, current_url, depth, crawlLog, discovered,
                   link_fetch, a_tags>>

\* The page answers 200 and every card is handled.
ExtractOk ==
    \E cards \in PageCards : ExtractReturns("200", cards, 0)

\* The page GET fails: another status, whatever the body carries (lines
\* 122-124), or a RequestException (lines 197-199).
ExtractFetchFails ==
    \/ \E cards \in PageCards : ExtractReturns("non200", cards, 0)
    \/ ExtractReturns("RequestException", <<>>, 0)

\* Handling some card raises (lines 200-202).
ExtractRaises ==
    \E cards \in PageCards : \E k \in 1..Len(cards) : ExtractReturns("200", cards, k)

\* Lines 246-261 with status 200: the anchors are filtered and queued; a
\* ValueError from urljoin leaves crawl_website.
LinksOk ==
    /\ pc = "links"
    /\ \E served \in PageAnchors :
         LET r == ProcessAnchors(served, queue) IN
         /\ queue' = r.queue
         /\ pc' = IF r.raised THEN "raised" ELSE "sleep"
         /\ discovered' = discovered \cup ResolvedLinks(served)
         /\ a_tags' = served
    /\ link_fetch' = "200"
    /\ getLog' = getLog (+) Sent(current_url, "crawl_website")
    /\ UNCHANGED outside
    /\ UNCHANGED <<config, visited, scraped_article_urls, all_articles,
                   pages_visited, current_url, depth, crawlLog, extractLog,
                   page_fetch, seed_fetch>>

\* Lines 246-247 with another status: nothing is queued.
LinksNon200 ==
    /\ pc = "links"
    /\ pc' = "sleep"
    /\ link_fetch' = "non200"
    /\ getLog' = getLog (+) Sent(current_url, "crawl_website")
    /\ UNCHANGED outside
    /\ UNCHANGED <<config, visited, scraped_article_urls, queue, all_articles,
                   pages_visited, current_url, depth, crawlLog, extractLog,
                   discovered, page_fetch, seed_fetch, a_tags>>

\* Lines 262-264: a RequestException; `continue` skips the sleep.
LinksRequestException ==
    /\ pc = "links"
    /\ pc' = "loop"
    /\ link_fetch' = "RequestException"
    /\ getLog' = getLog (+) Sent(current_url, "crawl_website")
    /\ UNCHANGED outside
    /\ UNCHANGED <<config, visited, scraped_article_urls, queue, all_articles,
                   pages_visited, current_url, depth, crawlLog, extractLog,
                   discovered, page_fetch, seed_fetch, a_tags>>

\* Line 266.
Sleep ==
    /\ pc = "sleep"
    /\ pc' = "loop"
    /\ a_tags' = <<>>
    /\ UNCHANGED outside
    /\ UNCHANGED <<config, visited, scraped_article_urls, queue, all_articles,
                   pages_visited, current_url, depth, crawlLog, getLog,
                   extractLog, discovered, page_fetch, seed_fetch, link_fetch>>

\* Lines 222 and 268: the queue is empty and all_articles is returned.
Return ==
    /\ pc = "loop" /\ queue = <<>>
    /\ pc' = "returned"
    /\ UNCHANGED outside
    /\ UNCHANGED <<config, visited, scraped_article_urls, queue, all_articles,
                   pages_visited, current_url, depth, crawlLog, getLog,
                   extractLog, discovered, page_fetch, seed_fetch, link_fetch,
                   a_tags>>

Next ==
    \/ SkipVisited
    \/ DropCapped
    \/ BeginCrawl
    \/ ExtractOk
    \/ ExtractFetchFails
    \/ ExtractRaises
    \/ LinksOk
    \/ LinksNon200
    \/ LinksRequestException
    \/ Sleep
    \/ Return

Spec == Init /\ [][Next]_vars

\* ---------------------------------------------------------------- __main__
json_filename == "twz_articles_fullsite_limited2.json"
csv_filename  == "twz_articles_fullsite_limited2.csv"

\* Mutant: the records are saved after every page, while the crawl runs.
SaveJsonCheckpoint ==
    /\ main_pc = "crawl" /\ pc = "sleep"
    /\ written' = written \cup {json_filename}
    /\ UNCHANGED <<vars, main_pc, extract_vars, scripts_vars, country_vars, pool_vars>>

\* Lines 281-287, reached once crawl_website has returned: the JSON file is
\* written, or the error of open/json.dump is printed.
SaveJson ==
    /\ main_pc = "crawl" /\ pc = "returned"
    /\ \E saved \in BOOLEAN :
           written' = IF saved THEN written \cup {json_filename} ELSE written
    /\ main_pc' = "save_csv"
    /\ UNCHANGED <<vars, extract_vars, scripts_vars, country_vars, pool_vars>>

\* Lines 290-320: the CSV file is written, or the error is printed.
SaveCsv ==
    /\ main_pc = "save_csv"
    /\ \E saved \in BOOLEAN :
           written' = IF saved THEN written \cup {csv_filename} ELSE written
    /\ main_pc' = "done"
    /\ UNCHANGED <<vars, extract_vars, scripts_vars, country_vars, pool_vars>>

\* Line 277: __main__ calls crawl_website("https://www.twz.com/").
MainInit ==
    /\ main_pc = "crawl" /\ written = {}
    /\ ExtractIdle /\ ScriptsIdle /\ CountryIdle /\ PoolIdle
    /\ start_url = URL("https", Netloc(SiteHost, ""), PathRoot)
    /\ MAX_DEPTH \in 0..MainDepthBound
    /\ MAX_PAGES \in 1..MaxPagesBound
    /\ domain = start_url.netloc
    /\ visited = {}
    /\ scraped_article_urls = {}
    /\ queue = <<[url |-> start_url, depth |-> 0]>>
    /\ all_articles = <<>>
    /\ pages_visited = 0
    /\ current_url = NoUrl
    /\ depth = 0
    /\ pc = "loop"
    /\ crawlLog = <<>>
    /\ getLog = EmptyBag
    /\ extractLog = {}
    /\ discovered = {}
    /\ page_fetch = "none"
    /\ seed_fetch = "none"
    /\ link_fetch = "none"
    /\ a_tags = <<>>

MainNext ==
    \/ Next
    \/ SaveJson
    \/ SaveCsv

all_vars == <<vars, outside>>

MainSpec == MainInit /\ [][MainNext]_all_vars

\* --------------------------------- extract_articles_from_page on its own
\* crawl_website is not running.
CrawlIdle ==
    /\ start_url = NoUrl /\ MAX_DEPTH = 0 /\ MAX_PAGES = 1 /\ domain = NoNetloc
    /\ visited = {} /\ scraped_article_urls = {} /\ queue = <<>>
    /\ all_articles = <<>> /\ pages_visited = 0 /\ current_url = NoUrl
    /\ depth = 0 /\ pc = "idle" /\ crawlLog = <<>> /\ getLog = EmptyBag
    /\ extractLog = {} /\ discovered = {} /\ page_fetch = "none"
    /\ seed_fetch = "none" /\ link_fetch = "none" /\ a_tags = <<>>

\* The cards a listing page can carry: with or without a link, a date, authors,
\* and with each kind of detail page behind the link.
AllCards ==
    { Card(hNews, d, a, p) :
        d \in {"", "Apr 3, 2025"}, a \in {<<>>, <<"Card Author">>},
        p \in {pageFull, pageBare, pageFailed, pageNoGet, pageRaises} }
    \cup {cNoLink}

CardLists == UNION { [1..n -> AllCards] : n \in 0..MaxCards }

\* The argument of the call.
ExtractPage == URL("https", Netloc(SiteHost, ""), PathNews)

ExtractInit ==
    /\ CrawlIdle /\ MainIdle /\ ScriptsIdle /\ CountryIdle /\ PoolIdle
    /\ ex_pc = "called"
    /\ ex_resp \in Responses
    /\ ex_cards \in (IF ex_resp = "RequestException" THEN {<<>>} ELSE CardLists)
    /\ ex_raise_at \in (IF ex_resp = "200" THEN 0..Len(ex_cards) ELSE {0})
    /\ ex_returned = <<>>

\* Lines 111-202: the call runs to its return.
ExtractCall ==
    /\ ex_pc = "called"
    /\ ex_returned' = extract_articles_from_page(ExtractPage, ex_resp, ex_cards,
                                                 ex_raise_at)
    /\ ex_pc' = "returned"
    /\ UNCHANGED <<vars, main_vars, scripts_vars, country_vars, pool_vars, ex_resp, ex_cards,
                   ex_raise_at>>

ExtractNext == ExtractCall

ExtractSpec == ExtractInit /\ [][ExtractNext]_all_vars

\* ------------------------------------------ Master_Script.py and run_all.py
\* Master_Script.py lines 25-33.
packages_to_check ==
    <<"transformers", "torch", "nltk", "beautifulsoup4", "pandas", "numpy", "requests">>

\* Master_Script.py lines 40-47: the scripts main runs, in this order.
MasterScripts == <<"Script.py", "Country-Maps-script.py", "GFP.py">>

\* run_all.py lines 16 and 19: the scripts run_script is meant for.
RunAllScripts == {"Article_Scraping.py", "ML_Ranking.py"}

\* The return codes of a script: 0, or a non-zero one.
ReturnCodes == {0, 1, 2}

\* Where Master_Script.main stands while script k runs, and after it.
ScriptPc(k) == IF k <= Len(MasterScripts) THEN <<"script", k>> ELSE <<"done">>

\* Mutant: Master_Script.run_script ends the process like run_all.run_script.
AfterCalledProcessErrorExits(file, next) == <<"exited">>

\* The handlers of CalledProcessError: Master_Script.py lines 10-11 print and
\* return, run_all.py lines 10-12 print and call exit(1).
AfterCalledProcessError(file, next) ==
    IF file = "run_all" THEN <<"exited">> ELSE next

ScriptsInit ==
    /\ CrawlIdle /\ MainIdle /\ ExtractIdle /\ CountryIdle /\ PoolIdle
    /\ ms_file \in {"Master_Script", "run_all"}
    /\ ms_pc = IF ms_file = "Master_Script" THEN <<"packages">> ELSE <<"call">>
    /\ ms_package = 1 /\ pip_runs = {}
    /\ running = {} /\ ms_log = <<>> /\ exit_status = "running"

\* Master_Script.py lines 15-22, one package: the import succeeds, or pip
\* install is run and its outcome ignored; when pip cannot be started the
\* OSError leaves main.
CheckPackage ==
    /\ ms_file = "Master_Script" /\ ms_pc = <<"packages">>
    /\ ms_package <= Len(packages_to_check)
    /\ \E outcome \in {"imported", "pip ran", "OSError"} :
         /\ pip_runs' = IF outcome = "pip ran"
                        THEN pip_runs \cup {packages_to_check[ms_package]}
                        ELSE pip_runs
         /\ IF outcome = "OSError"
            THEN /\ ms_pc' = <<"crashed">> /\ exit_status' = "traceback"
                 /\ ms_package' = ms_package
            ELSE /\ ms_package' = ms_package + 1
                 /\ ms_pc' = IF ms_package = Len(packages_to_check)
                             THEN ScriptPc(1) ELSE ms_pc
                 /\ exit_status' = exit_status
    /\ UNCHANGED <<vars, main_vars, extract_vars, country_vars, pool_vars, ms_file, running, ms_log>>

\* Master_Script.py line 8 / run_all.py line 8: subprocess.run starts the
\* child, or raises OSError when `python` cannot be started; the OSError is
\* not a CalledProcessError and leaves run_script and its caller.
StartScript(script) ==
    /\ running = {}
    /\ \E started \in BOOLEAN :
         IF started
         THEN /\ running' = running \cup {script}
              /\ UNCHANGED <<ms_pc, exit_status>>
         ELSE /\ ms_pc' = <<"crashed">> /\ exit_status' = "traceback"
              /\ UNCHANGED running
    /\ UNCHANGED <<vars, main_vars, extract_vars, country_vars, pool_vars, ms_file, ms_package, pip_runs, ms_log>>

MasterStartScript ==
    /\ ms_file = "Master_Script" /\ ms_pc[1] = "script"
    /\ StartScript(MasterScripts[ms_pc[2]])

\* Master_Script.py lines 8-11 and 45-47: subprocess.run waits for the
\* child; check=True turns a non-zero return code into CalledProcessError.
MasterScriptEnds ==
    /\ ms_file = "Master_Script" /\ ms_pc[1] = "script"
    /\ running = {MasterScripts[ms_pc[2]]}
    /\ \E code \in ReturnCodes :
         /\ ms_log' = Append(ms_log, [script |-> MasterScripts[ms_pc[2]],
                                       returncode |-> code])
         /\ ms_pc' = IF code = 0 THEN ScriptPc(ms_pc[2] + 1)
                     ELSE AfterCalledProcessError(ms_file, ScriptPc(ms_pc[2] + 1))
    /\ running' = {}
    /\ exit_status' = IF ms_pc' = <<"done">> THEN "0"
                      ELSE IF ms_pc' = <<"exited">> THEN "1" ELSE exit_status
    /\ UNCHANGED <<vars, main_vars, extract_vars, country_vars, pool_vars, ms_file, ms_package, pip_runs>>

\* run_all.py lines 5-8: run_script is called for one script.
RunAllStartScript ==
    /\ ms_file = "run_all" /\ ms_pc = <<"call">>
    /\ \E script \in RunAllScripts : StartScript(script)

\* run_all.py lines 8-12.
RunAllScriptEnds ==
    /\ ms_file = "run_all" /\ ms_pc = <<"call">>
    /\ running # {}
    /\ \E script \in running, code \in ReturnCodes :
         /\ ms_log' = Append(ms_log, [script |-> script, returncode |-> code])
         /\ ms_pc' = IF code = 0 THEN <<"returned">>
                     ELSE AfterCalledProcessError(ms_file, <<"returned">>)
    /\ running' = {}
    /\ exit_status' = IF ms_pc' = <<"exited">> THEN "1" ELSE exit_status
    /\ UNCHANGED <<vars, main_vars, extract_vars, country_vars, pool_vars, ms_file, ms_package, pip_runs>>

ScriptsNext ==
    \/ CheckPackage
    \/ MasterStartScript
    \/ MasterScriptEnds
    \/ RunAllStartScript
    \/ RunAllScriptEnds

ScriptsSpec == ScriptsInit /\ [][ScriptsNext]_all_vars

\* ------------------------------------------ Webscraping.process_country
\* Entries of get_country_list() (lines 124-126): lower-case names with
\* hyphens for spaces, and the alpha-2 code.
Countries ==
    { [name |-> "france", code |-> "FR"],
      [name |-> "united-states", code |-> "US"] }

\* Line 157: country.replace('-', ' ').title().
Title(name) ==
    CASE name = "france" -> "France"
      [] name = "united-states" -> "United States"
      [] name = "japan" -> "Japan"
      [] name = "guinea-bissau" -> "Guinea Bissau"
      [] name = "brazil" -> "Brazil"
      [] name = "south-africa" -> "South Africa"
      [] name = "india" -> "India"
      [] name = "new-zealand" -> "New Zealand"
      [] OTHER -> name

\* data[k] = v.
Put(row, k, v) == [x \in DOMAIN row \cup {k} |-> IF x = k THEN v ELSE row[x]]

\* Lines 185-190: data.update with the four World Bank values.
PutWorldBank(row, growth, defense) ==
    Put(Put(Put(Put(row, "GDP Growth", growth), "GDP Growth Year", growth),
            "Defense Expenditure", defense), "Defense Expenditure Year", defense)

CountryInit ==
    /\ CrawlIdle /\ MainIdle /\ ExtractIdle /\ ScriptsIdle /\ PoolIdle
    /\ pcy_pc = "initialize_driver"
    /\ country_info \in Countries
    /\ driver = "none" /\ quit_calls = 0 /\ data = NoRow /\ caught = FALSE

country_frame == <<vars, main_vars, extract_vars, scripts_vars, pool_vars, country_info>>

\* Lines 156-157: webdriver.Chrome starts a browser, or raises; the call is
\* outside the try, so its error leaves process_country.
InitializeDriver ==
    /\ pcy_pc = "initialize_driver"
    /\ \E created \in BOOLEAN :
         IF created
         THEN /\ driver' = "open"
              /\ data' = Put(NoRow, "Country", Title(country_info.name))
              /\ pcy_pc' = "total_population"
         ELSE /\ pcy_pc' = "raised"
              /\ UNCHANGED <<driver, data>>
    /\ UNCHANGED <<country_frame, quit_calls, caught>>

\* Lines 192-193: the handler of the try block prints the error.
ExceptException ==
    /\ caught' = TRUE
    /\ pcy_pc' = "finally"

\* Line 160: the population, None when the counter is absent, or an error
\* (driver.get, int()).
GetTotalPopulation ==
    /\ pcy_pc = "total_population"
    /\ \/ /\ \E v \in {"number", "None"} : data' = Put(data, "Total Population", v)
          /\ pcy_pc' = "cities"
          /\ UNCHANGED caught
       \/ /\ ExceptException
          /\ UNCHANGED data
    /\ UNCHANGED <<country_frame, driver, quit_calls>>

\* Lines 163-164.
GetPopulationByCities ==
    /\ pcy_pc = "cities"
    /\ \/ /\ \E v \in {"records", "no records"} : data' = Put(data, "Top Cities", v)
          /\ pcy_pc' = "gdp_composition"
          /\ UNCHANGED caught
       \/ /\ ExceptException
          /\ UNCHANGED data
    /\ UNCHANGED <<country_frame, driver, quit_calls>>

\* Lines 167-180: the section is absent, or its parts are stored one by one;
\* float() raising on the second part leaves the first one in data.
GetGdpComposition ==
    /\ pcy_pc = "gdp_composition"
    /\ \/ /\ \E parsed \in BOOLEAN :
               data' = IF parsed
                       THEN Put(Put(data, "GDP Composition - agriculture", "number"),
                                "GDP Composition - industry", "number")
                       ELSE data
          /\ pcy_pc' = "world_bank"
          /\ UNCHANGED caught
       \/ /\ ExceptException
          /\ \E stored \in BOOLEAN :
               data' = IF stored
                       THEN Put(data, "GDP Composition - agriculture", "number")
                       ELSE data
    /\ UNCHANGED <<country_frame, driver, quit_calls>>

\* Lines 183-190.
GetWorldBank ==
    /\ pcy_pc = "world_bank"
    /\ \/ /\ \E growth, defense \in {"number", "None"} :
               data' = PutWorldBank(data, growth, defense)
          /\ pcy_pc' = "finally"
          /\ UNCHANGED caught
       \/ /\ ExceptException
          /\ UNCHANGED data
    /\ UNCHANGED <<country_frame, driver, quit_calls>>

\* Mutant: driver.quit() stands at the end of the try block, not in finally.
QuitUnlessCaught ==
    /\ pcy_pc = "finally"
    /\ driver' = IF caught THEN driver ELSE "quit"
    /\ quit_calls' = IF caught THEN quit_calls ELSE quit_calls + 1
    /\ pcy_pc' = "returned"
    /\ UNCHANGED <<country_frame, data, caught>>

\* Lines 194-196: finally driver.quit(), then return data.
FinallyQuit ==
    /\ pcy_pc = "finally"
    /\ driver' = "quit"
    /\ quit_calls' = quit_calls + 1
    /\ pcy_pc' = "returned"
    /\ UNCHANGED <<country_frame, data, caught>>

CountryNext ==
    \/ InitializeDriver
    \/ GetTotalPopulation
    \/ GetPopulationByCities
    \/ GetGdpComposition
    \/ GetWorldBank
    \/ FinallyQuit

CountrySpec == CountryInit /\ [][CountryNext]_all_vars

\* ---------------------------------------------------- Webscraping.main
max_workers == 5

\* The head of pycountry.countries as get_country_list() returns it
\* (lines 124-126).
PycountryList ==
    << [name |-> "france", code |-> "FR"],
       [name |-> "united-states", code |-> "US"],
       [name |-> "japan", code |-> "JP"],
       [name |-> "guinea-bissau", code |-> "GW"],
       [name |-> "brazil", code |-> "BR"],
       [name |-> "south-africa", code |-> "ZA"],
       [name |-> "india", code |-> "IN"],
       [name |-> "new-zealand", code |-> "NZ"] >>

Tasks == DOMAIN futures

\* What process_country returns for the i-th country: the row that line 157
\* starts, with the scraped values left out.
RowOf(i) == Put(NoRow, "Country", Title(country_list[i].name))

Completed(i) == futures[i] \in {"returned", "raised"}

Busy == {i \in Tasks : futures[i] = "running"}

PoolInit ==
    /\ CrawlIdle /\ MainIdle /\ ExtractIdle /\ ScriptsIdle /\ CountryIdle
    /\ pool_pc = "submit"
    /\ country_list \in {SubSeq(PycountryList, 1, n) : n \in 1..MaxCountries}
    /\ futures = [i \in DOMAIN country_list |-> "unsubmitted"]
    /\ yielded = {}
    /\ all_data = <<>>
    /\ appenders = {}

pool_frame == <<vars, main_vars, extract_vars, scripts_vars, country_vars, country_list>>

\* Line 206: executor.submit for the next country of country_list; after the
\* last one the main thread enters as_completed (line 207).
Submit ==
    /\ pool_pc = "submit"
    /\ \E i \in Tasks :
         /\ futures[i] = "unsubmitted"
         /\ \A j \in Tasks : j < i => futures[j] # "unsubmitted"
         /\ futures' = [futures EXCEPT ![i] = "pending"]
         /\ pool_pc' = IF i = Len(country_list) THEN "as_completed" ELSE "submit"
    /\ UNCHANGED <<pool_frame, yielded, all_data, appenders>>

\* A worker thread of the executor takes the oldest work item from the queue;
\* the executor has at most max_workers threads (line 205).
WorkerTakes ==
    /\ Cardinality(Busy) < max_workers
    /\ \E i \in Tasks :
         /\ futures[i] = "pending"
         /\ \A j \in Tasks : j < i => futures[j] # "pending"
         /\ futures' = [futures EXCEPT ![i] = "running"]
    /\ UNCHANGED <<pool_frame, pool_pc, yielded, all_data, appenders>>

\* process_country ends in a worker thread: it returns its row, or raises
\* (line 156) and the future keeps the exception.
WorkerEnds ==
    /\ \E i \in Busy, outcome \in {"returned", "raised"} :
         futures' = [futures EXCEPT ![i] = outcome]
    /\ UNCHANGED <<pool_frame, pool_pc, yielded, all_data, appenders>>

\* Lines 207-214: as_completed hands over a finished future; result() gives
\* the row, which the main thread appends, or re-raises into the handler,
\* which prints.
LoopBody ==
    /\ pool_pc = "as_completed"
    /\ \E i \in Tasks \ yielded :
         /\ Completed(i)
         /\ yielded' = yielded \cup {i}
         /\ IF futures[i] = "returned"
            THEN /\ all_data' = Append(all_data, RowOf(i))
                 /\ appenders' = appenders \cup {"main"}
            ELSE UNCHANGED <<all_data, appenders>>
    /\ UNCHANGED <<pool_frame, pool_pc, futures>>

\* Mutant: the first exception ends the loop and the with block.
ExitWithAtFirstError ==
    /\ pool_pc = "as_completed"
    /\ \/ yielded = Tasks
       \/ \E i \in yielded : futures[i] = "raised"
    /\ pool_pc' = "additional"
    /\ UNCHANGED <<pool_frame, futures, yielded, all_data, appenders>>

\* Lines 205-214: as_completed is exhausted once every future was handed
\* over; leaving the with block shuts the executor down.
ExitWith ==
    /\ pool_pc = "as_completed"
    /\ yielded = Tasks
    /\ pool_pc' = "additional"
    /\ UNCHANGED <<pool_frame, futures, yielded, all_data, appenders>>

\* Lines 217-219: three scrapes without a handler; an error ends main.
GetAdditionalData ==
    /\ pool_pc = "additional"
    /\ \E fetched \in BOOLEAN : pool_pc' = IF fetched THEN "combine" ELSE "raised"
    /\ UNCHANGED <<pool_frame, futures, yielded, all_data, appenders>>

\* Lines 222-254: combined_data is built from all_data and written.
Combine ==
    /\ pool_pc = "combine"
    /\ pool_pc' = "done"
    /\ UNCHANGED <<pool_frame, futures, yielded, all_data, appenders>>

PoolNext ==
    \/ Submit
    \/ WorkerTakes
    \/ WorkerEnds
    \/ LoopBody
    \/ ExitWith
    \/ GetAdditionalData
    \/ Combine

PoolSpec == PoolInit /\ [][PoolNext]_all_vars

\* ============================================================== claims
FailedFetch == page_fetch \in {"non200", "RequestException"}

HttpGets(u, who) == CopiesIn(Request(u, who), getLog)

\* C1: no URL is processed as a crawl page more than once: the "Crawling URL"
\* lines of a run name pairwise different URLs.
C1_NoUrlCrawledTwice ==
    \A i, j \in DOMAIN crawlLog : crawlLog[i].url = crawlLog[j].url => i = j

\* C1 witness: an entry has just been dropped by the visited test whose URL was
\* crawled before at another depth, so it was queued by another page.
C1_Witness ==
    /\ pc = "loop"
    /\ \E j \in DOMAIN crawlLog :
          crawlLog[j].url = current_url /\ crawlLog[j].depth # depth

C3_NoDuplicateLinks ==
    \A i, j \in DOMAIN all_articles :
        all_articles[i].Link = all_articles[j].Link => i = j

\* C3 witness: the run has returned and two processed pages listed the same
\* article.
C3_Witness ==
    /\ pc = "returned"
    /\ \E a, b \in extractLog : a.Link = b.Link /\ a.Page # b.Page

\* C4: at most MAX_PAGES pages are processed.
C4_PagesWithinCap ==
    Len(crawlLog) <= MAX_PAGES /\ pages_visited <= MAX_PAGES

\* C4 witness: with the cap reached, an entry not visited before has been taken
\* from the queue and dropped, and the queue still holds entries.
C4_Witness ==
    /\ pc = "loop" /\ Len(crawlLog) = MAX_PAGES
    /\ current_url \in visited
    /\ \A j \in DOMAIN crawlLog : crawlLog[j].url # current_url
    /\ queue # <<>>

\* C5: with MAX_DEPTH = 0 only the seed is processed, nothing is ever appended
\* to the queue, no link is resolved, and every record comes from the seed.
C5_DepthZeroOnlySeed ==
    MAX_DEPTH = 0 =>
        /\ \A i \in DOMAIN crawlLog : crawlLog[i].url = start_url
        /\ queue \in {<<>>, <<[url |-> start_url, depth |-> 0]>>}
        /\ discovered = {}
        /\ \A i \in DOMAIN all_articles : all_articles[i].Page = start_url

\* C5 witness: a run with MAX_DEPTH = 0 and room for more pages has returned
\* records.
C5_Witness ==
    /\ MAX_DEPTH = 0 /\ MAX_PAGES > 1
    /\ pc = "returned" /\ all_articles # <<>>

\* C6: every queue entry other than the seed has a path matching
\* ACCEPTED_PATH_REGEX.
C6_FrontierMatchesFilter ==
    \A i \in DOMAIN queue :
        \/ queue[i] = [url |-> start_url, depth |-> 0]
        \/ RegexSearch(queue[i].url.path)

\* C6 witness: a link of the seed's netloc with scheme https and a path not
\* matching the filter was resolved, and is not visited.
C6_Witness ==
    \E u \in discovered :
        /\ u.netloc = domain /\ u.scheme \in {"http", "https"}
        /\ ~RegexSearch(u.path) /\ u \notin visited

\* C7: every URL in the queue has the seed's host.
C7_FrontierSameHost ==
    \A i \in DOMAIN queue : queue[i].url.netloc.host = start_url.netloc.host

\* C7 witness: a link to another host was resolved whose scheme and path
\* would have passed.
C7_Witness ==
    \E u \in discovered :
        /\ u.netloc.host # start_url.netloc.host
        /\ u.scheme \in {"http", "https"} /\ RegexSearch(u.path)

\* C8: the depths of the processed pages never decrease.
C8_DepthsNonDecreasing ==
    \A i, j \in DOMAIN crawlLog : i < j => crawlLog[i].depth <= crawlLog[j].depth

\* C8 witness: two pages of depth 1 and then a page of depth 2 were processed.
C8_Witness ==
    \E i, j, k \in DOMAIN crawlLog :
        /\ i < j /\ j < k
        /\ crawlLog[i].depth = 1 /\ crawlLog[j].depth = 1 /\ crawlLog[k].depth = 2

C10_NoErrorEscapes == pc # "raised"

DepthOnePages == { crawlLog[i].url : i \in { j \in DOMAIN crawlLog : crawlLog[j].depth = 1 } }

\* The links found on the seed page that are on the seed's host, http/https
\* and accepted by the path filter.  With MAX_DEPTH = 1 only the seed's links
\* are ever read, so `discovered` holds the seed's links.
SeedLinksMatching ==
    { u \in discovered : /\ u.netloc.host = start_url.netloc.host
                         /\ u.scheme \in {"http", "https"}
                         /\ RegexSearch(u.path) }

\* What lines 257-260 accept of them: the netloc (host and port) is the
\* seed's, and the link is not the seed itself, which is visited already.
SeedLinksAccepted ==
    { u \in SeedLinksMatching : u.netloc = domain /\ u # start_url }

\* No depth-1 page was requested for its links.
DepthOneEnqueuesNothing ==
    \A u \in DepthOnePages : HttpGets(u, "crawl_website") = 0

\* C12 as stated: with MAX_DEPTH = 1 and MAX_PAGES above the number of links,
\* when the run is over the depth-1 pages processed are exactly the seed-page
\* links that are same-host, http/https and match the filter, and none of
\* them was read for links.
C12_DepthOneIsMatchingLinks ==
    (/\ MAX_DEPTH = 1
     /\ pc \in {"returned", "raised"}
     /\ MAX_PAGES > Cardinality(SeedLinksMatching)) =>
        /\ DepthOnePages = SeedLinksMatching
        /\ DepthOneEnqueuesNothing

\* C12 amended: with MAX_DEPTH = 1 and MAX_PAGES above the number of links,
\* when crawl_website returns, the depth-1 pages processed are exactly the
\* seed-page links whose netloc equals the seed's, whose scheme is http or
\* https, whose path matches the filter and which are not the seed itself;
\* none of them is read for links.  When resolving a seed anchor raises, no
\* depth-1 page is processed at all.
C12_DepthOneIsAcceptedLinks ==
    /\ (/\ MAX_DEPTH = 1
        /\ pc = "returned"
        /\ MAX_PAGES > Cardinality(SeedLinksAccepted)) =>
           /\ DepthOnePages = SeedLinksAccepted
           /\ DepthOneEnqueuesNothing
    /\ (MAX_DEPTH = 1 /\ pc = "raised") => DepthOnePages = {}

\* A returned MAX_DEPTH = 1 crawl whose seed page has four same-host links:
\* the three matching ones were processed at depth 1, the fourth was not.
C12_Witness ==
    /\ MAX_DEPTH = 1
    /\ pc = "returned"
    /\ Cardinality(DepthOnePages) = 3
    /\ Cardinality({ u \in discovered : u.netloc = domain }) = 4

\* The position in the processing order of a page crawl_website requested.
PageIndex(u) == CHOOSE j \in DOMAIN crawlLog : crawlLog[j].url = u

\* C13: when the same article Link is extracted from several processed pages,
\* all_articles holds exactly one record with that Link, and it is the record
\* of the page processed first among them.
C13_FirstPageWins ==
    \A a \in extractLog :
        /\ Cardinality({ i \in DOMAIN all_articles : all_articles[i].Link = a.Link }) = 1
        /\ \A i \in DOMAIN all_articles :
               all_articles[i].Link = a.Link =>
                   PageIndex(all_articles[i].Page) <= PageIndex(a.Page)

\* The same Link was extracted from two processed pages and the crawl returned.
C13_Witness ==
    /\ pc = "returned"
    /\ \E a, b \in extractLog :
           /\ a.Link = b.Link
           /\ PageIndex(a.Page) < PageIndex(b.Page)
           /\ \E i \in DOMAIN all_articles : all_articles[i] = a

\* crawl_website runs on one thread and every request carries a timeout, so a
\* step that can be taken is taken.
FairSpec == Spec /\ WF_vars(Next)

\* C14 as stated: every run of crawl_website terminates by returning: the
\* frontier becomes empty and the accumulated output is returned.
C14_EventuallyReturns == <>(pc = "returned" /\ queue = <<>>)

\* The URLs crawl_website requested, and those it marked visited without
\* requesting them (line 231).
CrawledUrls == { crawlLog[i].url : i \in DOMAIN crawlLog }
DroppedUrls == visited \ CrawledUrls

\* C15: an entry dequeued when pages_visited has reached MAX_PAGES (or whose
\* depth exceeds MAX_DEPTH) has its URL put in visited and nothing else: no
\* request is sent, pages_visited, all_articles and scraped_article_urls stay
\* as they are, nothing is queued; and no later step queues a dropped URL.
C15_CappedEntryOnlyVisited ==
    [][ /\ (/\ pc = "loop" /\ queue # <<>>
            /\ (Head(queue).depth > MAX_DEPTH \/ pages_visited >= MAX_PAGES)) =>
               /\ visited' = visited \cup {Head(queue).url}
               /\ queue' = Tail(queue)
               /\ getLog' = getLog
               /\ crawlLog' = crawlLog
               /\ pages_visited' = pages_visited
               /\ all_articles' = all_articles
               /\ scraped_article_urls' = scraped_article_urls
               /\ pc' = "loop"
        /\ \A i \in DOMAIN queue' :
               i > Len(queue) => queue'[i].url \notin DroppedUrls ]_vars

\* An entry was just dropped at the page cap: it is visited, was never
\* requested, and other entries still wait.
C15_Witness ==
    /\ pc = "loop"
    /\ current_url \in DroppedUrls
    /\ pages_visited = MAX_PAGES
    /\ depth <= MAX_DEPTH
    /\ HttpGets(current_url, "extract_articles_from_page") = 0
    /\ queue # <<>>

\* The step in which extract_articles_from_page comes back from a failed GET.
FetchFailsStep == pc = "extract" /\ page_fetch' \in {"non200", "RequestException"}

C17_SleepBeforeNextDequeue ==
    [][ (pc # "loop" /\ pc' = "loop") => pc = "sleep" ]_vars

\* C18: entries are appended to the queue only while a page with
\* depth < MAX_DEPTH is read for links and pages_visited, already incremented
\* for that page, is below MAX_PAGES; the page whose increment brings
\* pages_visited to MAX_PAGES is not read for links and queues nothing.
C18_LinksOnlyBelowCaps ==
    [][ /\ Len(queue') > Len(queue) =>
               (pc = "links" /\ depth < MAX_DEPTH /\ pages_visited < MAX_PAGES)
        /\ (pages_visited' = pages_visited + 1 /\ pages_visited' >= MAX_PAGES) =>
               (pc' = "sleep" /\ queue' = queue)
        /\ (pc = "sleep" /\ pages_visited >= MAX_PAGES) =>
               (queue' = queue /\ getLog' = getLog) ]_vars

\* The page that filled the cap was retrieved at a depth below MAX_DEPTH, yet
\* no link-extraction request was sent for it; other entries still wait.
C18_Witness ==
    /\ pc = "sleep"
    /\ MAX_PAGES >= 2
    /\ pages_visited = MAX_PAGES
    /\ depth < MAX_DEPTH
    /\ page_fetch = "200"
    /\ link_fetch = "none"
    /\ HttpGets(current_url, "crawl_website") = 0
    /\ queue # <<>>

\* The step in which the link-extraction GET answers 200 and the anchors of
\* the page (a_tags') are walked through.
LinkStep == pc = "links" /\ link_fetch' = "200"

\* The anchors the loop of lines 249-261 gets to: all of them, or those before
\* the first one on which urljoin raises.
AnchorsRead(tags) ==
    LET bad == { i \in DOMAIN tags : UrlJoinRaises(tags[i]) }
    IN IF bad = {} THEN tags
       ELSE SubSeq(tags, 1, (CHOOSE i \in bad : \A j \in bad : i <= j) - 1)

\* The entries a step put behind those already in the queue.
Appended(old, new) == SubSeq(new, Len(old) + 1, Len(new))

\* A resolved link that passes the tests of lines 257-260 other than the
\* visited test.
Eligible(u) ==
    /\ u.netloc = domain
    /\ u.scheme \in {"http", "https"}
    /\ RegexSearch(u.path)

\* C19: no step appends an entry whose URL is in visited; and a link read
\* from a page that is eligible and not in visited is appended once for each
\* of its anchors, whether or not an entry with the same URL already waits in
\* the queue.
C19_VisitedRefusedQueuedNot ==
    [][ /\ \A i \in DOMAIN queue' : i > Len(queue) => queue'[i].url \notin visited
        /\ LinkStep =>
             LET read == AnchorsRead(a_tags')
                 app  == Appended(queue, queue')
             IN \A k \in DOMAIN read :
                    LET u == urljoin(current_url, read[k]) IN
                    (~IsEmptyHref(read[k]) /\ Eligible(u) /\ u \notin visited) =>
                        Cardinality({ i \in DOMAIN app : app[i].url = u })
                          = Cardinality({ j \in DOMAIN read :
                                            /\ ~IsEmptyHref(read[j])
                                            /\ urljoin(current_url, read[j]) = u })
      ]_vars

\* A page was just read for links: one of its eligible links was refused
\* because it is visited, and the queue now holds one URL twice, once from an
\* earlier page and once from this one.
C19_Witness ==
    /\ pc = "sleep"
    /\ link_fetch = "200"
    /\ \E k \in DOMAIN a_tags :
           /\ ~UrlJoinRaises(a_tags[k])
           /\ Eligible(urljoin(current_url, a_tags[k]))
           /\ urljoin(current_url, a_tags[k]) \in visited
    /\ \E i, j \in DOMAIN queue :
           /\ queue[i].url = queue[j].url
           /\ queue[i].depth = depth
           /\ queue[j].depth = depth + 1

\* The entries lines 249-261 make of the anchors read from the current page:
\* the accepted ones, in markup order, one level below the page.
LinkEntries(tags) ==
    LET sel == SelectSeq(AnchorsRead(tags),
                         LAMBDA h : /\ ~IsEmptyHref(h)
                                    /\ Eligible(urljoin(current_url, h))
                                    /\ urljoin(current_url, h) \notin visited)
    IN [ i \in 1..Len(sel) |->
           [url |-> urljoin(current_url, sel[i]), depth |-> depth + 1] ]

\* C20: the accepted links of a page of depth d are appended behind the
\* entries already waiting, as (link, d + 1), in the order of their anchors in
\* the markup; and the entry taken next is always the one at the head.
C20_AppendInOrderFifo ==
    [][ /\ LinkStep => queue' = queue \o LinkEntries(a_tags')
        /\ (pc = "loop" /\ queue # <<>>) =>
               /\ current_url' = Head(queue).url
               /\ depth' = Head(queue).depth
               /\ queue' = Tail(queue) ]_vars

\* A page below the seed was just read for links: two different links were
\* appended, in order, behind an entry of the page's own depth.
C20_Witness ==
    /\ pc = "sleep"
    /\ link_fetch = "200"
    /\ depth >= 1
    /\ Len(queue) >= 3
    /\ queue[1].depth = depth
    /\ Len(LinkEntries(a_tags)) >= 2
    /\ queue[Len(queue) - 1] = LinkEntries(a_tags)[Len(LinkEntries(a_tags)) - 1]
    /\ queue[Len(queue)] = LinkEntries(a_tags)[Len(LinkEntries(a_tags))]
    /\ queue[Len(queue) - 1].url # queue[Len(queue)].url

\* s is an initial part of t.
IsPrefix(s, t) == Len(s) <= Len(t) /\ SubSeq(t, 1, Len(s)) = s

\* The records of all_articles stand in the order their pages were processed.
ArticlesInPageOrder ==
    \A i, j \in DOMAIN all_articles :
        i < j => PageIndex(all_articles[i].Page) <= PageIndex(all_articles[j].Page)

\* C21: all_articles is append-only: in every step the old sequence is a
\* prefix of the new one, so a record is never removed, moved or changed, also
\* when its Link is extracted again later; and the records stand in the order
\* in which their pages were processed.
C21_AppendOnly ==
    [][ IsPrefix(all_articles, all_articles') /\ ArticlesInPageOrder' ]_vars

\* Two pages contributed records, and a Link already held was extracted again
\* from a later page.
C21_Witness ==
    /\ \E i, j \in DOMAIN all_articles : all_articles[i].Page # all_articles[j].Page
    /\ \E a \in extractLog :
           /\ \A i \in DOMAIN all_articles : all_articles[i] # a
           /\ \E i \in DOMAIN all_articles :
                  /\ all_articles[i].Link = a.Link
                  /\ PageIndex(all_articles[i].Page) < PageIndex(a.Page)

\* C22: no output file is written while crawl_website runs: as long as it has
\* not returned, and after it was left by an error, neither the JSON nor the
\* CSV file exists, whatever all_articles holds.
C22_NoFileBeforeReturn ==
    /\ pc # "returned" => written = {}
    /\ written # {} => main_pc \in {"save_csv", "done"}

\* The crawl was cut short with records accumulated and nothing written.
C22_Witness ==
    /\ main_pc = "crawl"
    /\ pc = "raised"
    /\ all_articles # <<>>
    /\ written = {}

\* The cards of the call that have a link, in order, leaving out card `but`.
LinkedCards(cards, but) ==
    LET idx == SelectSeq([i \in 1..Len(cards) |-> i],
                         LAMBDA i : i # but /\ ~IsEmptyHref(cards[i].Link))
    IN [k \in 1..Len(idx) |-> cards[idx[k]]]

\* One returned record for each of the given cards, in order.
ReturnedFor(linked) ==
    /\ Len(ex_returned) = Len(linked)
    /\ \A k \in 1..Len(linked) : ex_returned[k].Link = linked[k].Link

\* C23 as stated: when handling one card raises, only its record is lost: the
\* call returns the records of the other cards of the page.
C23_OnlyFailingCardDropped ==
    (ex_pc = "returned" /\ ex_raise_at > 0) =>
        ReturnedFor(LinkedCards(ex_cards, ex_raise_at))

\* C23 amended: an absent element is handled card by card without an error (a
\* card without link is skipped, the others give one record each, in order);
\* an error raised while a card is handled is caught once for the whole page:
\* the call returns the empty list, so the records of the cards before the
\* failing one are lost as well.
C23_ErrorDropsWholePage ==
    ex_pc = "returned" =>
        /\ ex_raise_at > 0 => ex_returned = <<>>
        /\ (ex_resp = "200" /\ ex_raise_at = 0) => ReturnedFor(LinkedCards(ex_cards, 0))

\* The second card raised after the first, which has a link, was handled.
C23_Witness ==
    /\ ex_pc = "returned"
    /\ ex_raise_at = 2
    /\ ~IsEmptyHref(ex_cards[1].Link)
    /\ ex_returned = <<>>

\* C24: every frontier entry, and the entry being processed, has a depth in
\* 0..MAX_DEPTH, so the `depth > MAX_DEPTH` half of line 230 is never true:
\* an unvisited entry is dropped only when pages_visited has reached MAX_PAGES.
C24_DepthWithinCap ==
    /\ \A i \in DOMAIN queue : queue[i].depth \in 0..MAX_DEPTH
    /\ depth \in 0..MAX_DEPTH
    /\ DroppedUrls # {} => pages_visited = MAX_PAGES

\* An entry was dropped at the page cap while an entry of depth MAX_DEPTH
\* still waits.
C24_Witness ==
    /\ MAX_DEPTH >= 1
    /\ DroppedUrls # {}
    /\ \E i \in DOMAIN queue : queue[i].depth = MAX_DEPTH

\* C25: the depths of the frontier entries never decrease from head to tail,
\* none is below the depth of the entry being processed, and the tail entry is
\* at most one level below the head and the entry being processed.
C25_FrontierDepthsOrdered ==
    /\ \A i, j \in DOMAIN queue : i < j => queue[i].depth <= queue[j].depth
    /\ queue # <<>> =>
           /\ depth <= queue[1].depth
           /\ queue[Len(queue)].depth <= queue[1].depth + 1
           /\ queue[Len(queue)].depth <= depth + 1

\* A page below the seed was read for links: the frontier holds entries of
\* its own depth followed by entries one level down.
C25_Witness ==
    /\ pc = "sleep"
    /\ depth >= 1
    /\ Len(queue) >= 3
    /\ queue[1].depth = depth
    /\ queue[Len(queue)].depth = depth + 1
    /\ link_fetch = "200"

\* What holds each time the while loop of line 222 is about to test its
\* condition.
LoopBoundary ==
    pc = "loop" =>
        /\ scraped_article_urls = { all_articles[i].Link : i \in DOMAIN all_articles }
        /\ Len(all_articles) = Cardinality(scraped_article_urls)
        /\ pages_visited <= Cardinality(visited)

\* C26: at every iteration boundary scraped_article_urls is the set of the
\* Links of all_articles, all_articles has as many records as that set has
\* elements, pages_visited is at most the size of visited; and pages_visited
\* never decreases.
C26_BookkeepingAgrees ==
    [][ LoopBoundary' /\ pages_visited' >= pages_visited ]_vars

\* At an iteration boundary: records are held, a Link extracted a second time
\* was left out, and an entry was marked visited without being counted.
C26_Witness ==
    /\ pc = "loop"
    /\ all_articles # <<>>
    /\ Cardinality(extractLog) > Len(all_articles)
    /\ pages_visited < Cardinality(visited)

ScriptEnded == Len(ms_log') = Len(ms_log) + 1
LastReturnCode == ms_log[Len(ms_log)].returncode

\* C28: Master_Script.main runs Script.py, Country-Maps-script.py and GFP.py
\* one at a time and in that order, and goes on to the next script whatever
\* return code a script ends with; run_all.run_script ends the process with
\* exit status 1 as soon as a script ends with a non-zero return code.
C28_MasterGoesOnRunAllExits ==
    [][ /\ ms_file = "Master_Script" =>
             /\ Cardinality(running') <= 1
             /\ \A i \in DOMAIN ms_log' : ms_log'[i].script = MasterScripts[i]
             /\ running' # {} => running' = {MasterScripts[Len(ms_log') + 1]}
             /\ ScriptEnded =>
                    /\ ms_pc' = ScriptPc(Len(ms_log') + 1)
                    /\ exit_status' \in {"running", "0"}
        /\ (ms_file = "run_all" /\ ScriptEnded) =>
             IF LastReturnCode' # 0
             THEN ms_pc' = <<"exited">> /\ exit_status' = "1"
             ELSE ms_pc' = <<"returned">> /\ exit_status' = "running"
      ]_all_vars

\* Master_Script.main came to its end although the first two scripts ended
\* with non-zero return codes.
C28_Witness ==
    /\ ms_file = "Master_Script"
    /\ ms_pc = <<"done">>
    /\ Len(ms_log) = 3
    /\ ms_log[1].returncode # 0
    /\ ms_log[2].returncode # 0
    /\ ms_log[3].script = "GFP.py"

\* C29: a driver that was created is quit exactly once before process_country
\* returns, whether the scraping steps succeed or raise; an error of a
\* scraping step is absorbed, so the call returns the row built so far, which
\* holds at least 'Country'; the call raises only when no driver was created.
C29_DriverQuitOnce ==
    /\ quit_calls <= 1
    /\ pcy_pc = "returned" =>
           /\ driver = "quit" /\ quit_calls = 1
           /\ "Country" \in DOMAIN data
           /\ data["Country"] = Title(country_info.name)
    /\ pcy_pc = "raised" => (driver = "none" /\ quit_calls = 0 /\ ~caught)
    /\ caught => pcy_pc \in {"finally", "returned"}
    /\ driver = "open" => pcy_pc \notin {"returned", "raised"}

\* The call returned after a scraping step raised: the driver was quit once
\* and the row holds what was stored before the error.
C29_Witness ==
    /\ pcy_pc = "returned"
    /\ caught
    /\ driver = "quit" /\ quit_calls = 1
    /\ DOMAIN data = {"Country", "Total Population", "Top Cities",
                      "GDP Composition - agriculture"}

RowsOf(i) == {k \in DOMAIN all_data : all_data[k] = RowOf(i)}

\* C30: at most 5 country tasks run at once; only the main thread appends to
\* all_data, and every row in it belongs to a task that returned; once the
\* with block is left (additional data, combine, end) every submitted task has
\* completed and all_data holds exactly one row per task that returned and
\* none for a task that raised.
C30_CombineAfterAllTasks ==
    /\ Cardinality({i \in DOMAIN futures : futures[i] = "running"}) <= 5
    /\ appenders \subseteq {"main"}
    /\ \A k \in DOMAIN all_data :
         \E i \in DOMAIN futures : futures[i] = "returned" /\ all_data[k] = RowOf(i)
    /\ \A i \in DOMAIN futures : Cardinality(RowsOf(i)) <= 1
    /\ pool_pc \in {"additional", "combine", "done", "raised"} =>
         /\ \A i \in DOMAIN futures : futures[i] \in {"returned", "raised"}
         /\ \A i \in DOMAIN futures :
              Cardinality(RowsOf(i)) = IF futures[i] = "returned" THEN 1 ELSE 0
         /\ Len(all_data) = Cardinality({i \in DOMAIN futures : futures[i] = "returned"})

\* The combine phase is reached with more tasks than workers, the first task
\* having raised and all the others having returned and contributed a row.
C30_Witness ==
    /\ pool_pc = "combine"
    /\ Len(country_list) > max_workers
    /\ futures[1] = "raised"
    /\ \A i \in DOMAIN futures : i > 1 => futures[i] = "returned"
    /\ Len(all_data) = Len(country_list) - 1
    /\ appenders = {"main"}
====
